---- MODULE Spec2Model ----
(***************************************************************************)
(* next-session: the per-request session lifecycle.                        *)
(*                                                                         *)
(*   - the Session class (constructor, touch, save, destroy, commit),      *)
(*   - the connect-style middleware session() with its one-shot res.end    *)
(*     proxy (resEndProxy) and the module-level storeReady flag,           *)
(*   - a store honouring the store contract (get/set/destroy/touch), whose *)
(*     operations are asynchronous and may reject.                         *)
(*                                                                         *)
(* A request is one process.  Its position (pc) is                         *)
(*   "start"      the request has arrived, the middleware has not run      *)
(*   "get"        the middleware awaits store.get(req.sessionId)           *)
(*   "active"     next() was called: application code runs                 *)
(*   "destroying" the application awaits session.destroy()                 *)
(*   "committing" the application awaits session.commit()                  *)
(*   "ending"     res.end() was called, saveSession() is pending           *)
(*   "finalizing" res.end() was called on a response applySession guards,  *)
(*                the commit() it started is pending                       *)
(*   "done"       the original res.end has been applied                    *)
(*   "failed"     a promise the application awaited has rejected           *)
(*   "stalled"    the promise chain of resEndProxy has rejected            *)
(***************************************************************************)
EXTENDS Integers, Sequences, FiniteSets, TLC

\* ---------------------------------------------------------------- bounds
\* assignments/deletions the application performs on one session
MaxMut == 2
\* times the application calls res.end() on one response
MaxEnd == 2
\* times the clock advances
MaxTicks == 2

\* ------------------------------------------------------------- constants
\* JavaScript null / undefined for a number-valued field
NULL == -1
\* req.sessionId / req.cookies[name] when there is none
NoId == 0
\* the clock advances one second at a time; times are in milliseconds
TickMs == 1000

\* the requests (each with its own req/res pair), and the identifiers: the one
\* of the record the store starts with, and one genid() result per request
Reqs == {1, 2}
Ids == {1, 2, 3}
Keys == {"views", "user"}
Vals == {1, 2}
\* the secrets an encode/decode pair is built with; NoKey: none configured
NoKey == 0
SignKeys == {1, 2}
\* option values the middleware is constructed with
MaxAgeChoices == {NULL, 1}
TouchAfterChoices == {-1, 0, TickMs}

VARIABLES
  store,       \* id -> the record the store holds (present = FALSE: none)
  storeReady,  \* the module-level readiness flag
  now,         \* Date.now()
  nextId,      \* the next identifier genid() produces
  opts,        \* the options session()/Session were constructed with
  req          \* per request: req, res, the Session and the handler's position

vars == <<store, storeReady, now, nextId, opts, req>>

\* ---------------------------------------------------------------- Cookie
NoCookie == [maxAge |-> NULL, expires |-> NULL]

\* new Cookie(options): expires is taken from the options when they carry one
\* (a persisted cookie), and derived from maxAge otherwise
Cookie(o, t) ==
  [maxAge  |-> o.maxAge,
   expires |-> IF o.expires # NULL THEN o.expires
               ELSE IF o.maxAge # NULL THEN t + o.maxAge * 1000
               ELSE NULL]

\* cookie.resetExpires(): expires = now + maxAge*1000 when maxAge is set
resetExpires(c, t) ==
  IF c.maxAge # NULL THEN [c EXCEPT !.expires = t + c.maxAge * 1000] ELSE c

\* cookie.serialize(name, value): the Set-Cookie header value
serialize(c, id) ==
  [set |-> TRUE, id |-> id, maxAge |-> c.maxAge, expires |-> c.expires]

\* options.encode: encodeFn(key), `s:` + signature.sign(sessId, key); without
\* one the identifier is written as it is
encode(id, key) == IF key = NoKey \/ id = NoId THEN id ELSE key * 10 + id

\* decode that returns the identifier whatever key signed it
decode_noVerify(raw, key) == IF key = NoKey THEN raw ELSE raw % 10

\* options.decode: decodeFn(key), signature.unsign(raw.slice(2), key), which
\* is false unless the signature was made with the same key
decode(raw, key) ==
  IF key = NoKey THEN raw
  ELSE IF raw \div 10 = key THEN raw % 10
  ELSE NoId

NoHeader == [set |-> FALSE, id |-> NoId, maxAge |-> NULL, expires |-> NULL]

\* --------------------------------------------------------- session object
\* session.key = v: an existing key keeps its place, a new key comes last
Assign(data, k, v) ==
  IF \E i \in DOMAIN data : data[i].k = k
  THEN [i \in DOMAIN data |->
          IF data[i].k = k THEN [k |-> k, v |-> v] ELSE data[i]]
  ELSE Append(data, [k |-> k, v |-> v])

\* delete session.key
Delete(data, k) == SelectSeq(data, LAMBDA e : e.k # k)

HasKey(data, k) == \E i \in DOMAIN data : data[i].k = k

\* the own enumerable properties of a Session, in property order: cookie is
\* assigned first by the constructor, the data keys follow in insertion order
\* (req, res, _opts, isNew, id, _sessStr are defineProperties: not enumerable)
ownProps(sess) == <<[k |-> "cookie", v |-> sess.cookie]>> \o sess.data

\* stringify() without its replacer: the cookie is serialized too
stringify_keepCookie(sess) == ownProps(sess)

\* JSON.stringify(sess, (key, val) => key === 'cookie' ? undefined : val)
stringify(sess) == SelectSeq(ownProps(sess), LAMBDA e : e.k # "cookie")

\* sha1 of the same serialization (collision-free here)
hash(sess) == <<"sha1", stringify(sess)>>

BlankSession ==
  [id |-> NoId, data |-> <<>>, cookie |-> NoCookie, isNew |-> FALSE,
   sessStr |-> <<>>]

\* new Session(req, res, sess, options); `found` is the truthiness of sess,
\* `sid` is req.sessionId, `fresh` is what options.genid() returns
Session(sid, found, rec, o, fresh, t) ==
  LET made == IF found
              THEN [id |-> sid, data |-> rec.data,
                    cookie |-> Cookie(rec.cookie, t), isNew |-> FALSE,
                    sessStr |-> <<>>]
              ELSE [id |-> fresh, data |-> <<>>,
                    cookie |-> Cookie([maxAge |-> o.maxAge, expires |-> NULL], t),
                    isNew |-> TRUE, sessStr |-> <<>>]
  IN  [made EXCEPT !.sessStr = stringify(made)]

\* ------------------------------------------------------------------ store
NoRecord == [present |-> FALSE, data |-> <<>>, cookie |-> NoCookie]

\* what store.set keeps of a session: its serialization, cookie included
RecordOf(sess) == [present |-> TRUE, data |-> sess.data, cookie |-> sess.cookie]

\* a stored record whose cookie expiry has passed reads as absent
Expired(rec, t) == rec.cookie.expires # NULL /\ rec.cookie.expires < t

\* store.get(id): the record, or none when absent or expired
StoreFound(st, id, t) == st[id].present /\ ~Expired(st[id], t)

\* store.get(id) evicts an expired record as a side effect
StoreAfterGet(st, id, t) ==
  IF st[id].present /\ Expired(st[id], t) THEN [st EXCEPT ![id] = NoRecord] ELSE st

\* store.set(id, sess)
StoreSet(st, id, sess) == [st EXCEPT ![id] = RecordOf(sess)]

\* store.destroy(id)
StoreDestroy(st, id) == [st EXCEPT ![id] = NoRecord]

\* store.touch(id, sess): refreshes the expiry of an existing record only
StoreTouch(st, id, sess) ==
  IF st[id].present THEN [st EXCEPT ![id].cookie = sess.cookie] ELSE st

\* the effect of the pending store operation of a request when it resolves
ApplyOp(st, q, t) ==
  CASE q.op = "set"     -> StoreSet(st, q.sess.id, q.sess)
    [] q.op = "touch"   -> StoreTouch(st, q.sess.id, q.sess)
    [] q.op = "destroy" -> StoreDestroy(st, q.sess.id)
    [] q.op = "get"     -> StoreAfterGet(st, q.sessionId, t)
    [] OTHER            -> st

\* ---------------------------------------------------------------- request
BlankReq ==
  [pc |-> "start",
   cookie |-> NoId,          \* req.cookies[name]
   sessionId |-> NoId,       \* req.sessionId
   bound |-> "none",         \* req.session: "none", "foreign" or "session"
   sess |-> BlankSession,    \* the Session object of this request
   wrapped |-> FALSE,        \* res.end is resEndProxy
   ended |-> FALSE,          \* the closure variable `ended`
   sessionSaved |-> FALSE,   \* the closure variable `sessionSaved`
   saved |-> FALSE,          \* commit()'s local `saved`
   touched |-> FALSE,        \* commit()'s local `touched`
   headersSent |-> FALSE,    \* res.headersSent
   header |-> NoHeader,      \* the response's Set-Cookie header
   op |-> "none",            \* the store operation in flight
   key |-> NoKey,            \* the key of options.encode / options.decode
   auto |-> FALSE,           \* options.autoCommit of applySession
   raw |-> NoId,             \* the cookie value as the client sent it
   \* history, read by the properties only
   preBound |-> FALSE,       \* req.session was defined when the request arrived
   after |-> {},             \* the requests finalized before this one arrived
   readyAt |-> TRUE,         \* storeReady when the request arrived
   found |-> FALSE,          \* the store had a record when the Session was made
   opRejected |-> FALSE,     \* a store operation the handler awaited rejected
   settled |-> "none",       \* how saveSession() settled: "ok" or "rejected"
   cookieSet |-> FALSE,      \* the handler assigned session.cookie.maxAge
   elapsed |-> NULL,         \* maxAge*1000 - (expires - now) when commit() began
   should |-> FALSE,         \* commit()'s local `shouldTouch`
   gone |-> {},              \* whose destroy() had resolved when commit() began
   wrote |-> 0,              \* position of its last set among the sets applied
   nSaveSession |-> 0,       \* runs of saveSession()
   endCalls |-> 0,           \* calls of res.end()
   oldEnd |-> 0,             \* times the original res.end was applied
   handled |-> FALSE,        \* the handler's first synchronous block has run
   mutated |-> FALSE,        \* the handler assigned or deleted session data
   nGet |-> 0,               \* store.get calls
   nSet |-> 0,               \* store.set calls
   nTouch |-> 0,             \* Session.touch() calls
   nHdr |-> 0,               \* res.setHeader('Set-Cookie', ...) calls
   nCommit |-> 0,            \* Session.commit() calls
   destroyed |-> FALSE]      \* Session.destroy() was called

\* ---------------------------------------------------- Session's operations
\* touch(): resetExpires, then store.touch when the store has one
touch(q, o, t) ==
  [q EXCEPT !.sess.cookie = resetExpires(q.sess.cookie, t),
            !.op = IF o.hasTouch THEN "touch" ELSE "noop",
            !.nTouch = @ + 1]

\* save() that only refreshes the record the store already holds
save_refreshOnly(q, t) ==
  [q EXCEPT !.sess.cookie = resetExpires(q.sess.cookie, t),
            !.op = "touch",
            !.nSet = @ + 1]

\* save() after which the session no longer counts as new
save_clearsNew(q, t) ==
  [q EXCEPT !.sess.cookie = resetExpires(q.sess.cookie, t),
            !.sess.isNew = FALSE,
            !.op = "set",
            !.nSet = @ + 1]

\* save(): resetExpires, then store.set(id, this)
save(q, t) ==
  [q EXCEPT !.sess.cookie = resetExpires(q.sess.cookie, t),
            !.op = "set",
            !.nSet = @ + 1]

\* destroy() that leaves req.session in place
destroy_keepSession(q) == [q EXCEPT !.op = "destroy", !.destroyed = TRUE]

\* destroy(): delete req.session, then store.destroy(id)
destroy(q) ==
  [q EXCEPT !.bound = "none", !.op = "destroy", !.destroyed = TRUE]

\* shouldSave that holds whatever the data
shouldSave_always(sess) == TRUE

\* shouldSave that also holds for every new session
shouldSave_orNew(sess) == sess.isNew \/ stringify(sess) # sess.sessStr

\* commit(): shouldSave
shouldSave(sess) == stringify(sess) # sess.sessStr

\* commit(): shouldTouch
shouldTouch(c, touchAfter, t) ==
  /\ c.maxAge # NULL
  /\ c.expires # NULL
  /\ touchAfter = -1
  /\ c.maxAge * 1000 - (c.expires - t) >= touchAfter

\* commitEmit() that forgets the new session
commitEmit_rollingOnly(q, o) ==
  IF o.rolling /\ q.touched
  THEN IF q.headersSent
       THEN q
       ELSE [q EXCEPT !.header = serialize(q.sess.cookie,
                                           encode(q.sess.id, q.key)),
                      !.nHdr = @ + 1]
  ELSE q

\* commitEmit() emitting on any touch, rolling or not
commitEmit_anyTouch(q, o) ==
  IF (o.rolling \/ q.touched) \/ q.sess.isNew
  THEN IF q.headersSent
       THEN q
       ELSE [q EXCEPT !.header = serialize(q.sess.cookie,
                                           encode(q.sess.id, q.key)),
                      !.nHdr = @ + 1]
  ELSE q

\* commitEmit() emitting after a save as well as after a touch
commitEmit_savedToo(q, o) ==
  IF (o.rolling /\ (q.touched \/ q.saved)) \/ q.sess.isNew
  THEN IF q.headersSent
       THEN q
       ELSE [q EXCEPT !.header = serialize(q.sess.cookie,
                                           encode(q.sess.id, q.key)),
                      !.nHdr = @ + 1]
  ELSE q

\* commit(): the cookie emission after the awaits
commitEmit(q, o) ==
  IF (o.rolling /\ q.touched) \/ q.sess.isNew
  THEN IF q.headersSent
       THEN q
       ELSE [q EXCEPT !.header = serialize(q.sess.cookie,
                                           encode(q.sess.id, q.key)),
                      !.nHdr = @ + 1]
  ELSE q

\* commit() whose touch is not under `!saved`
commitBegin_touchAfterSave(q, o, t) ==
  LET q0 == [q EXCEPT !.saved = FALSE, !.touched = FALSE, !.nCommit = @ + 1,
                      !.should = shouldTouch(q.sess.cookie, o.touchAfter, t)]
  IN  IF shouldSave(q.sess)
      THEN IF q0.should
           THEN [touch(save(q0, t), o, t) EXCEPT !.saved = TRUE,
                                                  !.touched = TRUE,
                                                  !.pc = "committing"]
           ELSE [save(q0, t) EXCEPT !.saved = TRUE, !.pc = "committing"]
      ELSE IF q0.should
      THEN [touch(q0, o, t) EXCEPT !.touched = TRUE, !.pc = "committing"]
      ELSE commitEmit(q0, o)

\* commit() up to its first await (or to its end when it awaits nothing)
commitBegin(q, o, t) ==
  LET c  == q.sess.cookie
      q0 == [q EXCEPT !.saved = FALSE, !.touched = FALSE, !.nCommit = @ + 1,
                      !.should = shouldTouch(c, o.touchAfter, t),
                      !.elapsed = IF c.maxAge # NULL /\ c.expires # NULL
                                  THEN c.maxAge * 1000 - (c.expires - t)
                                  ELSE NULL]
  IN  IF shouldSave(q.sess)
      THEN [save(q0, t) EXCEPT !.saved = TRUE, !.pc = "committing"]
      ELSE IF shouldTouch(q.sess.cookie, o.touchAfter, t)
      THEN [touch(q0, o, t) EXCEPT !.touched = TRUE, !.pc = "committing"]
      ELSE commitEmit(q0, o)

\* a rejection that commit() catches: it goes on to the emission
awaitRejected_swallowed(q, o) ==
  IF q.pc = "committing"
  THEN [commitEmit(q, o) EXCEPT !.pc = "active", !.op = "none",
                                !.opRejected = TRUE]
  ELSE [q EXCEPT !.pc = "active", !.op = "none", !.opRejected = TRUE]

\* the store operation behind `await this.save()`, `await this.touch()` or
\* the promise destroy() returns rejects: the await throws, so what follows
\* it in commit() does not run and the caller gets the rejection
awaitRejected(q, o) ==
  [q EXCEPT !.op = "none", !.pc = "failed", !.opRejected = TRUE]

\* commit() after the awaited save()/touch() has resolved
commitResume(q, o) == [commitEmit(q, o) EXCEPT !.pc = "active", !.op = "none"]

\* ------------------------------------------------------- the middleware
\* the session of a request is the one the middleware created
HasSession(q) == q.bound = "session"

\* getSession(): generate() or createSession(), then the `.then` that proxies
\* res.end and calls next()
getSessionThen(q, found, rec, o, fresh, t) ==
  LET sess == Session(q.sessionId, found, rec, o, fresh, t)
  IN  [q EXCEPT !.sess = sess,
                !.found = found,
                !.sessionId = sess.id,
                !.bound = "session",
                !.wrapped = TRUE,
                !.op = "none",
                !.pc = "active"]

\* the middleware without its `if (!storeReady) return next()`
middleware_noReadyCheck(q, pre, c, ready, o, fresh, t) ==
  IF pre
  THEN [q EXCEPT !.bound = "foreign", !.cookie = c, !.pc = "active"]
  ELSE IF c = NoId
  THEN getSessionThen([q EXCEPT !.cookie = c, !.sessionId = c],
                      FALSE, NoRecord, o, fresh, t)
  ELSE [q EXCEPT !.cookie = c, !.sessionId = c, !.op = "get",
                 !.nGet = @ + 1, !.pc = "get"]

\* the middleware without its `if (req.session) return next()`
middleware_noSkip(q, pre, c, ready, o, fresh, t) ==
  IF ~ready
  THEN [q EXCEPT !.cookie = c, !.pc = "active"]
  ELSE IF c = NoId
  THEN getSessionThen([q EXCEPT !.cookie = c, !.sessionId = c],
                      FALSE, NoRecord, o, fresh, t)
  ELSE [q EXCEPT !.cookie = c, !.sessionId = c, !.op = "get",
                 !.nGet = @ + 1, !.pc = "get"]

\* (req, res, next) => ...: `pre` says req.session is already defined, `c` is
\* req.cookies[name]
middleware(q, pre, c, ready, o, fresh, t) ==
  IF pre
  THEN [q EXCEPT !.bound = "foreign", !.cookie = c, !.pc = "active"]
  ELSE IF ~ready
  THEN [q EXCEPT !.cookie = c, !.pc = "active"]
  ELSE IF c = NoId
  THEN getSessionThen([q EXCEPT !.cookie = c, !.sessionId = c],
                      FALSE, NoRecord, o, fresh, t)
  ELSE [q EXCEPT !.cookie = c, !.sessionId = c, !.op = "get",
                 !.nGet = @ + 1, !.pc = "get"]

\* hashedsess: hash() of the session as getSession() returned it
hashedsess(q) == <<"sha1", q.sess.sessStr>>

\* saveSession() inside resEndProxy
saveSession(q0, o, t) ==
  LET q == [q0 EXCEPT !.nSaveSession = @ + 1]
  IN  IF HasSession(q)
      THEN IF hash(q.sess) # hashedsess(q)
           THEN [save(q, t) EXCEPT !.sessionSaved = TRUE]
           ELSE IF q.sess.cookie.maxAge # NULL /\ q.sess.cookie.maxAge # 0
                   /\ o.touchAfter >= 0
           THEN IF /\ q.sess.cookie.expires # NULL
                   /\ q.sess.cookie.maxAge - (q.sess.cookie.expires - t)
                        < o.touchAfter
                THEN [q EXCEPT !.op = "noop"]
                ELSE touch(q, o, t)
           ELSE [q EXCEPT !.op = "noop"]
      ELSE [q EXCEPT !.op = "noop"]

\* resEndProxy without its `ended` guard
resEndProxy_noGuard(q, o, t) ==
  [saveSession(q, o, t) EXCEPT !.ended = TRUE, !.endCalls = @ + 1,
                               !.pc = "ending"]

\* resEndProxy applying oldEnd without waiting for saveSession()
resEndProxy_eagerEnd(q, o, t) ==
  IF q.ended
  THEN [q EXCEPT !.endCalls = @ + 1]
  ELSE [saveSession(q, o, t) EXCEPT !.ended = TRUE, !.endCalls = @ + 1,
                                    !.oldEnd = @ + 1, !.headersSent = TRUE,
                                    !.pc = "ending"]

\* res.end(...) on a proxied response: the synchronous part of resEndProxy
resEndProxy(q, o, t) ==
  IF q.ended
  THEN [q EXCEPT !.endCalls = @ + 1]
  ELSE [saveSession(q, o, t) EXCEPT !.ended = TRUE, !.endCalls = @ + 1,
                                    !.pc = "ending"]

\* oldEnd.apply(this, args): the original finalization
oldEnd(q) ==
  [q EXCEPT !.oldEnd = @ + 1, !.headersSent = TRUE, !.op = "none", !.pc = "done"]

\* resEndThen() whose Set-Cookie decision forgets the new identifier
resEndThen_noNewCookie(q, o) ==
  IF (q.sessionSaved \/ o.rolling) /\ HasSession(q)
  THEN IF q.headersSent
       THEN [q EXCEPT !.op = "none", !.pc = "stalled"]
       ELSE oldEnd([q EXCEPT !.header = serialize(q.sess.cookie, q.sessionId),
                             !.nHdr = @ + 1])
  ELSE oldEnd(q)

\* the `.then` of saveSession(): the Set-Cookie decision, then oldEnd.
\* res.setHeader throws once the headers are sent, which rejects the chain.
resEndThen(q, o) ==
  IF (q.cookie # q.sessionId \/ q.sessionSaved \/ o.rolling) /\ HasSession(q)
  THEN IF q.headersSent
       THEN [q EXCEPT !.op = "none", !.pc = "stalled"]
       ELSE oldEnd([q EXCEPT !.header = serialize(q.sess.cookie, q.sessionId),
                             !.nHdr = @ + 1])
  ELSE oldEnd(q)

\* ------------------------------------------------------------ applySession
\* applySession(req, res, options): skip when req.session is bound or the
\* store is not ready; decode the cookie; without an identifier construct a
\* new Session, otherwise ask the store. `key` and `auto` are the options
\* encode/decode and autoCommit of the instance that serves the request.
applySession(q, pre, raw, key, auto, ready, o, fresh, t) ==
  LET q0 == [q EXCEPT !.raw = raw, !.key = key, !.auto = auto]
      sid == decode(raw, key)
  IN  IF pre
      THEN [q0 EXCEPT !.bound = "foreign", !.pc = "active"]
      ELSE IF ~ready
      THEN [q0 EXCEPT !.pc = "active"]
      ELSE IF sid = NoId
      THEN [getSessionThen([q0 EXCEPT !.sessionId = sid],
                           FALSE, NoRecord, o, fresh, t)
              EXCEPT !.wrapped = auto]
      ELSE [q0 EXCEPT !.sessionId = sid, !.op = "get",
                      !.nGet = @ + 1, !.pc = "get"]

\* res.end(...) on a response applySession guards (autoCommit): the first
\* call runs commit() and then the original end, the later ones do nothing
applyEnd(q, o, t) ==
  IF q.ended
  THEN [q EXCEPT !.endCalls = @ + 1]
  ELSE LET q0 == [q EXCEPT !.ended = TRUE, !.endCalls = @ + 1]
       IN  IF HasSession(q0)
           THEN LET q1 == commitBegin(q0, o, t)
                IN  IF q1.pc = "committing"
                    THEN [q1 EXCEPT !.pc = "finalizing"]
                    ELSE oldEnd(q1)
           ELSE oldEnd(q0)

\* the commit() started by the guard resumes after its await, then the
\* original end is applied
applyEndThen(q, o) == oldEnd(commitEmit(q, o))

\* ---------------------------------------------------------------- actions
Set(r, q) == req' = [req EXCEPT ![r] = q]

\* the requests, other than r, whose store.destroy of the identifier of r's
\* session has resolved
DestroyedBy(r) ==
  {p \in Reqs \ {r} :
     /\ req[p].destroyed /\ req[p].sess.id = req[r].sess.id
     /\ req[p].pc # "destroying" /\ ~req[p].opRejected}

\* the store applies the pending operation of request r: a set takes the
\* next position among the sets applied so far
Wrote(r) ==
  IF req[r].op = "set"
  THEN 1 + CHOOSE m \in {req[p].wrote : p \in Reqs} :
             \A p \in Reqs : req[p].wrote <= m
  ELSE req[r].wrote

\* identifiers a client can present: none, or any identifier that exists
Presentable == {NoId} \cup {i \in Ids : i < nextId}

\* what application code does to the session's data: session[k] = v or
\* delete session[k]
Muts ==
  [del : {FALSE}, k : Keys, v : Vals] \cup [del : {TRUE}, k : Keys, v : {0}]

MutSeqs == UNION {[1 .. n -> Muts] : n \in 0 .. MaxMut}

ApplyMut(data, m) == IF m.del THEN Delete(data, m.k) ELSE Assign(data, m.k, m.v)

RECURSIVE ApplyMuts(_, _)
ApplyMuts(data, ms) ==
  IF ms = <<>> THEN data ELSE ApplyMuts(ApplyMut(data, Head(ms)), Tail(ms))

\* a request arrives and the middleware runs; slots are used in order
Middleware(r) ==
  /\ req[r].pc = "start"
  /\ IF r = 1 THEN TRUE ELSE req[r - 1].pc # "start"
  /\ nextId \in Ids
  /\ \E pre \in BOOLEAN, c \in Presentable :
       LET q == middleware(req[r], pre, c, storeReady, opts, nextId, now)
       IN  /\ Set(r, [q EXCEPT !.preBound = pre, !.readyAt = storeReady,
                                !.after = {p \in Reqs : req[p].pc = "done"}])
           /\ nextId' = IF q.bound = "session" THEN nextId + 1 ELSE nextId
  /\ UNCHANGED <<store, storeReady, now, opts>>

\* store.get resolves: createSession() when a record was found, generate()
\* otherwise
GetResolve(r) ==
  /\ req[r].pc = "get"
  /\ LET found == StoreFound(store, req[r].sessionId, now)
         q == getSessionThen(req[r], found, store[req[r].sessionId], opts,
                             nextId, now)
     IN  /\ store' = ApplyOp(store, req[r], now)
         /\ Set(r, q)
         /\ nextId' = IF found THEN nextId ELSE nextId + 1
  /\ UNCHANGED <<storeReady, now, opts>>

\* store.get rejects: getSession() rejects and next() is never called
GetReject(r) ==
  /\ req[r].pc = "get"
  /\ Set(r, [req[r] EXCEPT !.op = "none", !.pc = "failed"])
  /\ UNCHANGED <<store, storeReady, now, nextId, opts>>

\* session.cookie.maxAge = a, when the handler assigns it (NULL: it does not)
AssignMaxAge(c, a) == IF a = NULL THEN c ELSE [c EXCEPT !.maxAge = a]

\* the application's handler runs up to its first await: it mutates the
\* session's data (ms), may assign session.cookie.maxAge (a from CA), may
\* res.writeHead() (wh), and may call session.destroy() or session.commit()
Handle(r, MS, CA, WH) ==
  /\ req[r].pc = "active" /\ ~req[r].handled
  /\ \E wh \in WH :
       LET q0 == [req[r] EXCEPT !.handled = TRUE, !.headersSent = wh]
       IN  IF HasSession(req[r])
           THEN \E ms \in MS, a \in CA, act \in {"none", "destroy", "commit"} :
                  LET q1 == [q0 EXCEPT !.sess.data = ApplyMuts(@, ms),
                                       !.sess.cookie = AssignMaxAge(@, a),
                                       !.mutated = (ms # <<>>),
                                       !.cookieSet = (a # NULL)]
                  IN  Set(r, CASE act = "destroy" ->
                                    [destroy(q1) EXCEPT !.pc = "destroying"]
                               [] act = "commit" ->
                                    [commitBegin(q1, opts, now)
                                       EXCEPT !.gone = DestroyedBy(r)]
                               [] OTHER -> q1)
           ELSE Set(r, q0)
  /\ UNCHANGED <<store, storeReady, now, nextId, opts>>

\* store.destroy resolves
DestroyResolve(r) ==
  /\ req[r].pc = "destroying"
  /\ store' = ApplyOp(store, req[r], now)
  /\ Set(r, [req[r] EXCEPT !.op = "none", !.pc = "active"])
  /\ UNCHANGED <<storeReady, now, nextId, opts>>

\* the save()/touch() commit() awaits resolves
CommitResolve(r) ==
  /\ req[r].pc = "committing"
  /\ store' = ApplyOp(store, req[r], now)
  /\ Set(r, [commitResume(req[r], opts) EXCEPT !.wrote = Wrote(r)])
  /\ UNCHANGED <<storeReady, now, nextId, opts>>

\* the store operation the application awaits rejects: the rejection reaches
\* the application's handler
AwaitReject(r) ==
  /\ req[r].pc \in {"destroying", "committing"}
  /\ req[r].op \in {"set", "touch", "destroy"}
  /\ Set(r, awaitRejected(req[r], opts))
  /\ UNCHANGED <<store, storeReady, now, nextId, opts>>

\* application code: res.end(...)
ResEnd(r) ==
  /\ req[r].pc \in {"active", "ending", "done", "stalled"}
  /\ req[r].handled
  /\ req[r].endCalls < MaxEnd
  /\ Set(r, IF req[r].wrapped
            THEN resEndProxy(req[r], opts, now)
            ELSE [oldEnd(req[r]) EXCEPT !.endCalls = @ + 1])
  /\ UNCHANGED <<store, storeReady, now, nextId, opts>>

\* saveSession() resolves and its `.then` runs
EndResolve(r) ==
  /\ req[r].pc = "ending"
  /\ store' = ApplyOp(store, req[r], now)
  /\ Set(r, [resEndThen(req[r], opts) EXCEPT !.settled = "ok",
                                               !.wrote = Wrote(r)])
  /\ UNCHANGED <<storeReady, now, nextId, opts>>

\* saveSession() rejects: the `.then` never runs
EndReject(r) ==
  /\ req[r].pc = "ending"
  /\ req[r].op \in {"set", "touch"}
  /\ Set(r, [req[r] EXCEPT !.op = "none", !.pc = "stalled",
                           !.settled = "rejected"])
  /\ UNCHANGED <<store, storeReady, now, nextId, opts>>

\* store.emit('disconnect'); the flag is read by the middleware only, so an
\* event matters only while a request of R is still to arrive
Disconnect(R) ==
  /\ \E r \in R : req[r].pc = "start"
  /\ storeReady' = FALSE
  /\ UNCHANGED <<store, now, nextId, opts, req>>

\* store.emit('connect')
Connect(R) ==
  /\ \E r \in R : req[r].pc = "start"
  /\ storeReady' = TRUE
  /\ UNCHANGED <<store, now, nextId, opts, req>>

\* session(options) was called a second time, for another store: its
\* 'disconnect' handler assigns the same module-level storeReady
OtherDisconnect(R) ==
  /\ \E r \in R : req[r].pc = "start"
  /\ storeReady' = FALSE
  /\ UNCHANGED <<store, now, nextId, opts, req>>

\* the 'connect' handler of that other instance
OtherConnect(R) ==
  /\ \E r \in R : req[r].pc = "start"
  /\ storeReady' = TRUE
  /\ UNCHANGED <<store, now, nextId, opts, req>>

\* time passes; the clock is read through cookies that have a maxAge only
Tick(R) ==
  /\ \E r \in R : req[r].pc \notin {"done", "failed", "stalled"}
  /\ opts.maxAge # NULL \/ \E r \in R : req[r].sess.cookie.maxAge # NULL
  /\ now < MaxTicks * TickMs
  /\ now' = now + TickMs
  /\ UNCHANGED <<store, storeReady, nextId, opts, req>>

\* the cookie values a client can send to an instance that signs: none, or
\* an identifier that exists, signed with one of the keys
PresentableRaw ==
  {NoId} \cup {encode(i, k) : i \in {j \in Ids : j < nextId}, k \in SignKeys}

\* a request arrives at an instance that uses applySession
ApplySession(r) ==
  /\ req[r].pc = "start"
  /\ IF r = 1 THEN TRUE ELSE req[r - 1].pc # "start"
  /\ nextId \in Ids
  /\ \E pre \in BOOLEAN, raw \in PresentableRaw, key \in SignKeys,
        auto \in BOOLEAN :
       LET q == applySession(req[r], pre, raw, key, auto, storeReady, opts,
                             nextId, now)
       IN  /\ Set(r, [q EXCEPT !.preBound = pre, !.readyAt = storeReady,
                                !.after = {p \in Reqs : req[p].pc = "done"}])
           /\ nextId' = IF q.bound = "session" THEN nextId + 1 ELSE nextId
  /\ UNCHANGED <<store, storeReady, now, opts>>

\* store.get resolves for applySession
ApplyGetResolve(r) ==
  /\ req[r].pc = "get"
  /\ LET found == StoreFound(store, req[r].sessionId, now)
         q == getSessionThen(req[r], found, store[req[r].sessionId], opts,
                             nextId, now)
     IN  /\ store' = ApplyOp(store, req[r], now)
         /\ Set(r, [q EXCEPT !.wrapped = req[r].auto])
         /\ nextId' = IF found THEN nextId ELSE nextId + 1
  /\ UNCHANGED <<storeReady, now, opts>>

\* application code: res.end(...) on a response of applySession
ApplyEnd(r) ==
  /\ req[r].pc \in {"active", "finalizing", "done", "stalled"}
  /\ req[r].handled
  /\ req[r].endCalls < MaxEnd
  /\ Set(r, IF req[r].wrapped
            THEN applyEnd(req[r], opts, now)
            ELSE [oldEnd(req[r]) EXCEPT !.endCalls = @ + 1])
  /\ UNCHANGED <<store, storeReady, now, nextId, opts>>

\* the save()/touch() of the finalization-time commit() resolves
ApplyEndResolve(r) ==
  /\ req[r].pc = "finalizing"
  /\ store' = ApplyOp(store, req[r], now)
  /\ Set(r, [applyEndThen(req[r], opts) EXCEPT !.wrote = Wrote(r)])
  /\ UNCHANGED <<storeReady, now, nextId, opts>>

\* it rejects: commit() rejects and the original end is not applied
ApplyEndReject(r) ==
  /\ req[r].pc = "finalizing"
  /\ Set(r, [req[r] EXCEPT !.op = "none", !.pc = "stalled"])
  /\ UNCHANGED <<store, storeReady, now, nextId, opts>>

\* ------------------------------------------------------------------- Init
\* the options: without maxAge neither commit() nor saveSession() reads
\* touchAfter, and nothing calls touch()
Options ==
  {o \in [rolling : BOOLEAN, touchAfter : TouchAfterChoices,
          maxAge : MaxAgeChoices, hasTouch : BOOLEAN] :
     o.maxAge = NULL => (o.touchAfter = 0 /\ o.hasTouch)}

EmptyStore == [i \in Ids |-> NoRecord]

\* a record an earlier request saved at time 0 under the same options
EarlierRecord(o) ==
  [present |-> TRUE,
   data |-> <<[k |-> "views", v |-> 1], [k |-> "user", v |-> 1]>>,
   cookie |-> Cookie([maxAge |-> o.maxAge, expires |-> NULL], 0)]

Init ==
  /\ opts \in Options
  /\ store = [EmptyStore EXCEPT ![1] = EarlierRecord(opts)]
  /\ storeReady = TRUE
  /\ now = 0
  /\ nextId = 2
  /\ req = [r \in Reqs |-> BlankReq]

\* the steps of the requests R whose handlers draw their mutations from MS,
\* their session.cookie.maxAge from CA and their res.writeHead() from WH
Requests(R, MS, CA, WH) ==
  \/ \E r \in R : Middleware(r)
  \/ \E r \in R : GetResolve(r)
  \/ \E r \in R : GetReject(r)
  \/ \E r \in R : Handle(r, MS, CA, WH)
  \/ \E r \in R : DestroyResolve(r)
  \/ \E r \in R : CommitResolve(r)
  \/ \E r \in R : AwaitReject(r)
  \/ \E r \in R : ResEnd(r)
  \/ \E r \in R : EndResolve(r)
  \/ \E r \in R : EndReject(r)

\* the requests, the store's readiness events and the clock
Step(R, MS, CA, WH) ==
  \/ Requests(R, MS, CA, WH)
  \/ Disconnect(R)
  \/ Connect(R)
  \/ Tick(R)

\* one request, with every handler
Next == Step({1}, MutSeqs, {NULL, 2}, BOOLEAN)

Spec == Init /\ [][Next]_vars

\* what the handlers of two requests in flight together do to the data
PairMuts == {<<>>, <<[del |-> FALSE, k |-> "views", v |-> 2]>>}

\* two requests, concurrent or one after the other, with the store ready and
\* within one tick of the clock
NextPair == Requests(Reqs, PairMuts, {NULL}, BOOLEAN)

SpecPair == Init /\ [][NextPair]_vars

\* two requests, one after the other or together, while the store emits its
\* readiness events
NextReady ==
  \/ Requests(Reqs, PairMuts, {NULL}, {FALSE})
  \/ Disconnect(Reqs)
  \/ Connect(Reqs)

SpecReady == Init /\ [][NextReady]_vars

\* one request of this instance while only the store of another instance
\* emits readiness events: the bound store emits none
NextOther ==
  \/ Requests({1}, PairMuts, {NULL}, {FALSE})
  \/ OtherDisconnect({1})
  \/ OtherConnect({1})

SpecOther == Init /\ [][NextOther]_vars

\* a pending promise of request r settles
Settle(r) ==
  \/ GetResolve(r) \/ GetReject(r)
  \/ DestroyResolve(r) \/ CommitResolve(r) \/ AwaitReject(r)
  \/ EndResolve(r) \/ EndReject(r)

\* one request whose handler may res.writeHead(); every pending promise
\* settles in the end, and next() runs the handler
NextLive == Requests({1}, PairMuts, {NULL}, BOOLEAN)

SpecLive ==
  /\ Init /\ [][NextLive]_vars
  /\ WF_vars(Settle(1))
  /\ WF_vars(Handle(1, PairMuts, {NULL}, BOOLEAN))

\* one request served through applySession
NextApply ==
  \/ ApplySession(1)
  \/ ApplyGetResolve(1)
  \/ GetReject(1)
  \/ Handle(1, PairMuts, {NULL}, {FALSE})
  \/ DestroyResolve(1)
  \/ CommitResolve(1)
  \/ AwaitReject(1)
  \/ ApplyEnd(1)
  \/ ApplyEndResolve(1)
  \/ ApplyEndReject(1)

SpecApply == Init /\ [][NextApply]_vars

\* what the handlers of two requests racing on one record do to the data:
\* nothing, or an assignment to one field or to the other
RaceMuts ==
  {<<>>, <<[del |-> FALSE, k |-> "views", v |-> 2]>>,
   <<[del |-> FALSE, k |-> "user", v |-> 2]>>}

\* two requests in flight together, or one after the other, whose handlers
\* write different fields
NextRace == Requests(Reqs, RaceMuts, {NULL}, {FALSE})

SpecRace == Init /\ [][NextRace]_vars

\* ------------------------------------------------------------- properties
\* commit() has begun on the request's session and res.end() was not called
CommitBegun(q) == q.nCommit = 1 /\ q.endCalls = 0

\* commit() has returned to the handler and res.end() was not called
AfterCommit(q) == CommitBegun(q) /\ q.pc = "active"

\* the request got its session from the middleware, from a stored record
Hydrated(q) == q.wrapped /\ ~q.sess.isNew

\* the same keys with the same values, in whatever order
SameValues(a, b) == {a[i] : i \in DOMAIN a} = {b[i] : i \in DOMAIN b}

\* C1 (as stated): commit() issues a store set iff the serialized data
\* differs from the snapshot taken at construction, and mutations that are
\* reverted to the original values cause no set.
C1_RevertedValuesNoSet ==
  \A r \in Reqs :
    CommitBegun(req[r]) =>
      /\ (req[r].nSet = 1) <=> (req[r].sess.data # req[r].sess.sessStr)
      /\ SameValues(req[r].sess.data, req[r].sess.sessStr) => req[r].nSet = 0

\* C1 (amended): commit() issues a store set iff the session's data keys and
\* values, in insertion order and without the cookie, differ from the
\* snapshot taken at construction; a change of the cookie alone causes none.
C1_SetIffSerializationDiffers ==
  \A r \in Reqs :
    CommitBegun(req[r]) =>
      (req[r].nSet = 1) <=> (req[r].sess.data # req[r].sess.sessStr)

\* C1 witness: data mutated and reverted, the cookie changed, commit() ran
\* and issued no set.
C1_Witness ==
  \E r \in Reqs :
    /\ AfterCommit(req[r]) /\ req[r].mutated /\ req[r].cookieSet
    /\ req[r].sess.data = req[r].sess.sessStr /\ req[r].sess.data # <<>>
    /\ req[r].nSet = 0

C3_ReadOnlyNoCookie ==
  \A r \in Reqs :
    (~opts.rolling /\ Hydrated(req[r]) /\ ~req[r].mutated) =>
      ~req[r].header.set

\* C3 witness: such a request committed with a touch, was finalized, and has
\* no Set-Cookie header.
C3_Witness ==
  \E r \in Reqs :
    /\ ~opts.rolling /\ Hydrated(req[r]) /\ ~req[r].mutated
    /\ req[r].nCommit = 1 /\ req[r].nTouch >= 1 /\ req[r].pc = "done"

\* C4: with rolling enabled and touchAfter >= 0, commit() of a read-only
\* request on an existing session whose maxAge*1000 - (expires - now) has
\* reached touchAfter touches the store and sets the Set-Cookie header.
C4_TouchWhenThresholdReached ==
  \A r \in Reqs :
    (/\ opts.rolling /\ opts.touchAfter >= 0
     /\ Hydrated(req[r]) /\ ~req[r].mutated /\ ~req[r].headersSent
     /\ AfterCommit(req[r])
     /\ req[r].elapsed # NULL /\ req[r].elapsed >= opts.touchAfter) =>
      (req[r].nTouch = 1 /\ req[r].header.set)

\* C5: for an existing unchanged session with maxAge and expires set,
\* commit() never touches when touchAfter = -1 and always touches when
\* touchAfter = 0.
C5_TouchAfterBoundaries ==
  \A r \in Reqs :
    (/\ Hydrated(req[r]) /\ ~req[r].mutated /\ AfterCommit(req[r])
     /\ req[r].elapsed # NULL) =>
      /\ opts.touchAfter = -1 => req[r].nTouch = 0
      /\ opts.touchAfter = 0 => req[r].nTouch = 1

\* C6: however often res.end() is called on a proxied response, saveSession()
\* runs once (at the first call), the original end is applied at most once,
\* and the further calls issue no store operation and set no header.
C6_EndAtMostOnce ==
  \A r \in Reqs :
    req[r].wrapped =>
      /\ req[r].oldEnd <= 1
      /\ req[r].nSaveSession = IF req[r].endCalls > 0 THEN 1 ELSE 0
      /\ req[r].nSet + req[r].nTouch <= req[r].nCommit + req[r].nSaveSession
      /\ req[r].nHdr <= req[r].nCommit + req[r].oldEnd

\* C6 witness: res.end() was called again while the save started by the first
\* call was in flight.
C6_Witness ==
  \E r \in Reqs :
    /\ req[r].wrapped /\ req[r].pc = "ending" /\ req[r].op = "set"
    /\ req[r].endCalls >= 2

\* C7: the original end is applied only when the save or touch started by
\* resEndProxy has resolved and the Set-Cookie decision has been applied:
\* never while that store operation is in flight.
C7_EndAfterCommit ==
  \A r \in Reqs :
    req[r].wrapped =>
      /\ req[r].pc = "ending" => req[r].oldEnd = 0
      /\ req[r].oldEnd > 0 =>
           /\ req[r].pc = "done" /\ req[r].op = "none"
           /\ req[r].sessionSaved =>
                store[req[r].sess.id] = RecordOf(req[r].sess)
           /\ ((req[r].cookie # req[r].sessionId \/ req[r].sessionSaved
                  \/ opts.rolling) /\ HasSession(req[r])) =>
                req[r].header.set

\* C7 witness: a response was finalized after its session was saved and its
\* cookie set.
C7_Witness ==
  \E r \in Reqs :
    /\ req[r].wrapped /\ req[r].pc = "done" /\ req[r].sessionSaved
    /\ req[r].header.set /\ req[r].oldEnd = 1

\* request w holds a session under identifier i and has issued a store.set
WritesBack(w, i) == req[w].sess.id = i /\ req[w].nSet > 0

\* request r destroyed its session, a stored one, and was finalized
DestroyedAndDone(r) ==
  req[r].destroyed /\ req[r].pc = "done" /\ Hydrated(req[r])

\* request n arrived after r was finalized, presenting r's identifier, and
\* the middleware gave it a session
NextPresenting(n, r) ==
  /\ r \in req[n].after /\ req[n].cookie = req[r].sess.id
  /\ req[n].wrapped

\* C8 (as stated): after destroy() and finalization the request exposes no
\* session, the store holds no record under the identifier, and the next
\* request presenting it gets a fresh identifier and a Set-Cookie header.
C8_DestroyedStaysAbsent ==
  \A r \in Reqs :
    DestroyedAndDone(r) =>
      /\ req[r].bound = "none"
      /\ ~store[req[r].sess.id].present
      /\ \A n \in Reqs \ {r} :
           NextPresenting(n, r) =>
             /\ req[n].sess.isNew /\ req[n].sess.id # req[n].cookie
             /\ (req[n].pc = "done" /\ HasSession(req[n])) =>
                  (req[n].header.set /\ req[n].header.id = req[n].sess.id)

\* C8 (amended): a request that called destroy() exposes no session and
\* issues no store write and no Set-Cookie, at finalization included; once it
\* is finalized the store holds no record under the identifier unless
\* another request holding a session under that identifier saves it; and,
\* with no such request, the next request presenting the identifier gets a
\* new session under a fresh identifier, announced by Set-Cookie when its
\* response is finalized with the session still exposed.
C8_DestroyedNotWrittenBack ==
  \A r \in Reqs :
    /\ req[r].destroyed =>
         /\ req[r].bound = "none"
         /\ req[r].nSet = 0 /\ req[r].nTouch = 0 /\ ~req[r].header.set
    /\ (DestroyedAndDone(r)
          /\ \A w \in Reqs \ {r} : ~WritesBack(w, req[r].sess.id)) =>
         /\ ~store[req[r].sess.id].present
         /\ \A n \in Reqs \ {r} :
              NextPresenting(n, r) =>
                /\ req[n].sess.isNew /\ req[n].sess.id # req[n].cookie
                /\ (req[n].pc = "done" /\ HasSession(req[n])) =>
                     (req[n].header.set /\ req[n].header.id = req[n].sess.id)

\* C8 witness: a request destroyed the stored session and was finalized; the
\* next request presented the identifier and was finalized with the cookie
\* of a new session under another identifier.
C8_Witness ==
  \E r \in Reqs, n \in Reqs :
    /\ r # n /\ DestroyedAndDone(r) /\ req[r].nSaveSession = 1
    /\ ~store[req[r].sess.id].present
    /\ NextPresenting(n, r) /\ req[n].nGet = 1 /\ req[n].sess.isNew
    /\ req[n].pc = "done" /\ req[n].header.set
    /\ req[n].header.id # req[r].sess.id

\* C9: for an existing session, commit() sets the Set-Cookie header iff
\* rolling is enabled, the commit touched, and the headers were not sent; a
\* commit that saves sets none, and sent headers skip it without an error.
C9_ExistingCookieIffRollingTouch ==
  \A r \in Reqs :
    (Hydrated(req[r]) /\ AfterCommit(req[r])) =>
      (req[r].header.set <=>
         (opts.rolling /\ req[r].nTouch = 1 /\ ~req[r].headersSent))

\* C9 witness: commit() of an existing session touched under rolling and set
\* the cookie.
C9_Witness ==
  \E r \in Reqs :
    /\ Hydrated(req[r]) /\ AfterCommit(req[r]) /\ opts.rolling
    /\ req[r].nTouch = 1 /\ req[r].header.set

\* C10: when req.session is already defined the middleware does nothing: no
\* store lookup, no session, no identifier, res.end not proxied, no
\* Set-Cookie, and the store is as it was.
C10_SkipWhenSessionBound ==
  \A r \in Reqs :
    req[r].preBound =>
      /\ req[r].bound = "foreign" /\ req[r].sess = BlankSession
      /\ req[r].nGet = 0 /\ req[r].sessionId = NoId
      /\ ~req[r].wrapped /\ req[r].oldEnd = req[r].endCalls
      /\ ~req[r].header.set
      /\ nextId = 2 /\ store = [EmptyStore EXCEPT ![1] = EarlierRecord(opts)]

\* C10 witness: such a request was finalized by two direct calls of the
\* original end.
C10_Witness ==
  \E r \in Reqs :
    req[r].preBound /\ req[r].pc = "done" /\ req[r].endCalls = 2

\* the middleware has run for the request and req.session was not bound
\* before it
Arrived(q) == q.pc # "start" /\ ~q.preBound

\* C11: a request that arrives while storeReady is false passes through
\* unmodified (no session, no identifier, no store access, res.end not
\* proxied, no Set-Cookie); a request that arrives while it is true, after a
\* connect included, gets its store lookup or its session, and a new session
\* that is finalized undestroyed carries Set-Cookie.
C11_SkipWhileNotReady ==
  \A r \in Reqs :
    Arrived(req[r]) =>
      IF req[r].readyAt
      THEN /\ req[r].nGet = 1 \/ req[r].wrapped
           /\ req[r].pc \notin {"get", "failed"} => req[r].wrapped
           /\ (req[r].wrapped /\ req[r].sess.isNew /\ req[r].pc = "done"
                 /\ ~req[r].destroyed) =>
                (req[r].header.set /\ req[r].header.id = req[r].sess.id)
      ELSE /\ req[r].bound = "none" /\ req[r].sess = BlankSession
           /\ req[r].sessionId = NoId /\ ~req[r].wrapped
           /\ req[r].nGet = 0 /\ req[r].nSet = 0 /\ req[r].nTouch = 0
           /\ req[r].op = "none" /\ ~req[r].header.set
           /\ req[r].oldEnd = req[r].endCalls

\* C11 witness: a request arrived while the store was not ready and was
\* finalized untouched; the store connected again, and the next request was
\* finalized with the cookie of a new session.
C11_Witness ==
  \E r \in Reqs, n \in Reqs :
    /\ Arrived(req[r]) /\ ~req[r].readyAt /\ req[r].pc = "done"
    /\ ~req[r].header.set
    /\ r \in req[n].after /\ Arrived(req[n]) /\ req[n].readyAt
    /\ req[n].sess.isNew /\ req[n].pc = "done" /\ req[n].header.set

\* the cookie of the request was signed with another key than the key of the
\* instance that serves it
Mismatched(q) == q.raw # NoId /\ q.raw \div 10 # q.key

\* C12: a request whose cookie does not decode under the configured key
\* raises no error and reads as a new, empty session: no store lookup is
\* made, the session is new under another identifier than the signed one, and
\* its data at construction is empty.
C12_MismatchedKeyReadsNew ==
  \A r \in Reqs :
    (Arrived(req[r]) /\ req[r].readyAt /\ Mismatched(req[r])) =>
      /\ req[r].nGet = 0 /\ req[r].pc # "get"
      /\ req[r].pc = "failed" => req[r].handled
      /\ req[r].sess.isNew /\ req[r].sess.sessStr = <<>>
      /\ req[r].sess.id # req[r].raw % 10
      /\ req[r].sessionId = req[r].sess.id

\* C12 witness: the store holds data under identifier 1; a request presenting
\* that identifier signed with another key was finalized with an empty, new
\* session.
C12_Witness ==
  \E r \in Reqs :
    /\ Arrived(req[r]) /\ Mismatched(req[r]) /\ req[r].raw % 10 = 1
    /\ store[1].present /\ store[1].data # <<>>
    /\ req[r].pc = "done" /\ req[r].sess.isNew /\ req[r].sess.data = <<>>

\* the request was given a session by an applySession whose autoCommit is off
ManualCommit(q) == Arrived(q) /\ q.readyAt /\ q.key # NoKey /\ ~q.auto

\* C13: with autoCommit off res.end is not guarded and finalization commits
\* nothing: every store write of the request comes from a commit() the
\* application called; without one there is no write, no Set-Cookie and the
\* store is as it was; an explicit commit() of a new, mutated session stores
\* it and sets the cookie.
C13_NoCommitAtFinalization ==
  \A r \in Reqs :
    ManualCommit(req[r]) =>
      /\ ~req[r].wrapped /\ req[r].oldEnd = req[r].endCalls
      /\ req[r].nSet + req[r].nTouch <= req[r].nCommit
      /\ req[r].nCommit = 0 => ~req[r].header.set
      /\ (req[r].nCommit = 0 /\ ~req[r].destroyed) =>
           store = [EmptyStore EXCEPT ![1] = EarlierRecord(opts)]
      /\ (req[r].nCommit = 1 /\ req[r].pc \in {"active", "done"}
            /\ req[r].sess.isNew /\ req[r].mutated) =>
           /\ store[req[r].sess.id] = RecordOf(req[r].sess)
           /\ req[r].header.set
           /\ req[r].header.id = encode(req[r].sess.id, req[r].key)

\* C13 witness: a new session was mutated and the response finalized without
\* commit(): nothing was stored and no cookie was set.
C13_Witness ==
  \E r \in Reqs :
    /\ ManualCommit(req[r]) /\ req[r].sess.isNew /\ req[r].mutated
    /\ req[r].nCommit = 0 /\ req[r].pc = "done"
    /\ ~store[req[r].sess.id].present /\ ~req[r].header.set

\* request r created a session, saved it and was finalized
CreatedAndSaved(r) ==
  /\ req[r].wrapped /\ req[r].found = FALSE /\ req[r].nSet >= 1
  /\ req[r].pc = "done" /\ ~req[r].destroyed

\* C14: isNew is, at every moment of the session's life, the negation of
\* "the store returned a record when the Session was constructed" (no
\* identifier counts as no record), whatever the request did since; and a
\* request that presents the identifier of a session an earlier, finalized
\* request created and saved is not new.
C14_IsNewFixedAtConstruction ==
  \A r \in Reqs :
    /\ req[r].wrapped =>
         /\ req[r].sess.isNew = ~req[r].found
         /\ req[r].cookie = NoId => req[r].sess.isNew
    /\ \A n \in Reqs \ {r} :
         (/\ CreatedAndSaved(r) /\ NextPresenting(n, r)
          /\ \A w \in Reqs \ {r, n} :
               ~(req[w].sess.id = req[r].sess.id /\ req[w].destroyed)) =>
           (~req[n].sess.isNew /\ req[n].sess.id = req[r].sess.id)

\* C14 witness: a request created a session, mutated and saved it; the next
\* request presented its identifier, found its data, committed and was
\* finalized still not new.
C14_Witness ==
  \E r \in Reqs, n \in Reqs :
    /\ r # n /\ CreatedAndSaved(r) /\ req[r].sess.isNew
    /\ NextPresenting(n, r) /\ req[n].found /\ ~req[n].sess.isNew
    /\ req[n].sess.data # <<>> /\ req[n].nCommit = 1 /\ req[n].pc = "done"

\* C15: when the store operation behind an awaited save(), touch(),
\* destroy() or commit() rejects, the rejection reaches the handler: nothing
\* of the operation continues, the store does not hold what was to be saved,
\* and a commit() that rejected has set no Set-Cookie header.
C15_RejectionPropagates ==
  \A r \in Reqs :
    req[r].opRejected =>
      /\ req[r].pc = "failed" /\ req[r].op = "none"
      /\ req[r].endCalls = 0 /\ req[r].oldEnd = 0
      /\ req[r].nCommit = 1 => (~req[r].header.set /\ req[r].nHdr = 0)
      /\ req[r].saved => store[req[r].sess.id] # RecordOf(req[r].sess)

\* C15 witness: the save() of a commit() on a new, mutated session rejected;
\* the handler has the failure and there is no cookie.
C15_Witness ==
  \E r \in Reqs :
    /\ req[r].opRejected /\ req[r].nCommit = 1 /\ req[r].saved
    /\ req[r].sess.isNew /\ ~req[r].headersSent
    /\ req[r].pc = "failed" /\ ~req[r].header.set

\* C16: the flag starts available and only the events of the bound store
\* change it: while the bound store emits nothing, whatever another
\* instance's store emits, the flag stays available and no request of this
\* instance is skipped.
C16_OnlyBoundStoreEvents ==
  /\ storeReady
  /\ \A r \in Reqs :
       Arrived(req[r]) =>
         /\ req[r].readyAt
         /\ req[r].nGet = 1 \/ req[r].wrapped

\* C17: one commit() issues at most one store operation: save() and no
\* touch() when the data differs from the snapshot; touch() exactly when the
\* data is unchanged and shouldTouch holds; nothing otherwise.
C17_AtMostOneWrite ==
  \A r \in Reqs :
    CommitBegun(req[r]) =>
      /\ req[r].nSet + req[r].nTouch <= 1
      /\ req[r].sess.data # req[r].sess.sessStr =>
           (req[r].nSet = 1 /\ req[r].nTouch = 0)
      /\ req[r].nTouch = 1 <=>
           (req[r].sess.data = req[r].sess.sessStr /\ req[r].should)
      /\ req[r].nSet + req[r].nTouch = 0 => req[r].pc # "committing"

\* C17 witness: commit() found the data changed while shouldTouch held, and
\* saved without touching.
C17_Witness ==
  \E r \in Reqs :
    /\ AfterCommit(req[r]) /\ req[r].should
    /\ req[r].sess.data # req[r].sess.sessStr
    /\ req[r].nSet = 1 /\ req[r].nTouch = 0

\* C18: a request whose res.end() was called and whose saveSession()
\* resolved successfully eventually has the original end applied.
C18_FinalizedWhenStoreResolves ==
  \A r \in Reqs :
    (req[r].wrapped /\ req[r].endCalls > 0 /\ req[r].settled = "ok")
      ~> (req[r].pc = "done")

\* C19: in the connect-style middleware, once the save or touch started by
\* the first res.end() has rejected, the original end is never applied: the
\* guard stays set, saveSession() is not run again, no store operation is
\* started and no header is set by the later calls.
C19_RejectedNeverFinalized ==
  \A r \in Reqs :
    req[r].settled = "rejected" =>
      /\ req[r].pc = "stalled" /\ req[r].oldEnd = 0
      /\ req[r].ended /\ req[r].nSaveSession = 1
      /\ req[r].op = "none"
      /\ req[r].nHdr <= req[r].nCommit

\* C19 witness: the save started by the first res.end() rejected, res.end()
\* was called again, and the original end has not been applied.
C19_Witness ==
  \E r \in Reqs :
    /\ req[r].settled = "rejected" /\ req[r].sessionSaved
    /\ req[r].endCalls >= 2 /\ req[r].oldEnd = 0

\* request r got a new session, never mutated it, and called commit()
CommittedUnmutatedNew(r) ==
  /\ req[r].wrapped /\ req[r].sess.isNew /\ ~req[r].mutated
  /\ req[r].nCommit = 1 /\ req[r].pc \notin {"committing", "failed"}

\* C20: commit() of a new session that was never mutated sets Set-Cookie for
\* the generated identifier (headers not sent) and issues no store set; the
\* store holds no record under that identifier, and the next request that
\* presents it is given a new session again, under another identifier.
C20_UnmutatedNewNotStored ==
  \A r \in Reqs :
    CommittedUnmutatedNew(r) =>
      /\ req[r].nSet = 0
      /\ ~store[req[r].sess.id].present
      /\ AfterCommit(req[r]) =>
           IF req[r].headersSent
           THEN ~req[r].header.set
           ELSE req[r].header.set /\ req[r].header.id = req[r].sess.id
      /\ \A n \in Reqs \ {r} :
           NextPresenting(n, r) =>
             (req[n].sess.isNew /\ req[n].sess.id # req[r].sess.id)

\* C20 witness: a new, unmutated session was committed and announced by
\* Set-Cookie; the next request presented that identifier and got a new
\* session under another one.
C20_Witness ==
  \E r \in Reqs, n \in Reqs :
    /\ r # n /\ CommittedUnmutatedNew(r) /\ req[r].pc = "done"
    /\ req[r].header.set /\ req[r].header.id = req[r].sess.id
    /\ NextPresenting(n, r) /\ req[n].nGet = 1
    /\ req[n].sess.isNew /\ req[n].sess.id # req[r].sess.id

\* requests r and w hold sessions hydrated from the same stored record
SameRecord(r, w) ==
  /\ r # w /\ Hydrated(req[r]) /\ Hydrated(req[w])
  /\ req[r].sess.id = req[w].sess.id
  /\ req[r].sess.sessStr = req[w].sess.sessStr

\* request w called commit() on modified data after the store.destroy of
\* request r had resolved
CommitsAfterDestroy(w, r) ==
  /\ SameRecord(r, w) /\ r \in req[w].gone
  /\ req[w].nCommit = 1 /\ req[w].sess.data # req[w].sess.sessStr

\* C21: when one of two requests hydrated from the same record has destroyed
\* the session and the other then commits modified data, the other's Session
\* is still in place and its commit() issues save(); once that save has
\* resolved the store holds the other's state under the destroyed identifier.
C21_DestroyedIdWrittenAgain ==
  \A r \in Reqs, w \in Reqs :
    CommitsAfterDestroy(w, r) =>
      /\ req[w].bound = "session" /\ req[w].saved /\ req[w].nSet >= 1
      /\ req[w].pc = "committing" =>
           (req[w].op = "set" /\ ~store[req[r].sess.id].present)
      /\ req[w].pc \notin {"committing", "failed"} =>
           /\ req[w].wrote >= 1
           /\ store[req[r].sess.id] = RecordOf(req[w].sess)

\* C21 witness: both requests were finalized, one after destroy(), the other
\* after a commit() that began when the destroy had resolved, and the store
\* resolves the destroyed identifier to the other's data.
C21_Witness ==
  \E r \in Reqs, w \in Reqs :
    /\ CommitsAfterDestroy(w, r)
    /\ req[r].destroyed /\ req[r].pc = "done" /\ req[w].pc = "done"
    /\ store[req[r].sess.id].present
    /\ store[req[r].sess.id].data = req[w].sess.data

\* the value of field k in a session's data (0: no such field)
Field(data, k) ==
  IF HasKey(data, k)
  THEN (CHOOSE e \in {data[i] : i \in DOMAIN data} : e.k = k).v
  ELSE 0

\* the request's data differs from the snapshot taken at construction
Modified(q) == q.sess.data # q.sess.sessStr

\* the fields request o wrote and request l did not
WrittenOnlyBy(o, l) ==
  {k \in Keys :
     /\ Field(req[o].sess.data, k) # Field(req[o].sess.sessStr, k)
     /\ Field(req[l].sess.data, k) = Field(req[l].sess.sessStr, k)}

\* C22: of two requests hydrated from the same record, neither destroying,
\* (a) when both modified their data and the sets of both have been applied,
\* the stored record is the whole state of the request whose set was applied
\* last, and every field only the other request wrote has the value of the
\* shared snapshot; (b) a request whose data is unchanged issues no set, and
\* the stored data stays that of the request that wrote.
C22_LastSetWins ==
  \A r \in Reqs, w \in Reqs :
    (SameRecord(r, w) /\ ~req[r].destroyed /\ ~req[w].destroyed) =>
      /\ (/\ Modified(req[r]) /\ Modified(req[w])
          /\ req[w].wrote >= 1 /\ req[r].wrote > req[w].wrote) =>
           /\ store[req[r].sess.id] = RecordOf(req[r].sess)
           /\ \A k \in WrittenOnlyBy(w, r) :
                Field(store[req[r].sess.id].data, k)
                  = Field(req[r].sess.sessStr, k)
      /\ ~Modified(req[w]) =>
           /\ req[w].nSet = 0 /\ req[w].wrote = 0
           /\ req[r].wrote >= 1 =>
                store[req[r].sess.id].data = req[r].sess.data

\* C22 witness: both requests wrote a field of their own, committed and were
\* finalized; the store holds the state of the last writer, in which the
\* field of the other request has its old value.
C22_Witness ==
  \E r \in Reqs, w \in Reqs :
    /\ SameRecord(r, w) /\ Modified(req[r]) /\ Modified(req[w])
    /\ req[r].nCommit = 1 /\ req[w].nCommit = 1
    /\ req[r].pc = "done" /\ req[w].pc = "done"
    /\ req[w].wrote >= 1 /\ req[r].wrote > req[w].wrote
    /\ WrittenOnlyBy(w, r) # {} /\ WrittenOnlyBy(r, w) # {}
    /\ store[req[r].sess.id] = RecordOf(req[r].sess)
    /\ \A k \in WrittenOnlyBy(w, r) :
         Field(store[req[r].sess.id].data, k) = 1

====
